---------------------------- MODULE Spec2Model ----------------------------
(***************************************************************************)
(* ldbrest: a REST facade over an ordered key-value store (leveldb).       *)
(* The module models the store engine by its contract (sorted records, a   *)
(* directional cursor, atomic write batches, snapshot read views) and the  *)
(* repository's code on top of it: iterate / iterateUntil / iterateN, the  *)
(* /iterate, /key and /batch handlers, applyBatch, and makeSnap.           *)
(***************************************************************************)
EXTENDS Integers, Sequences, FiniteSets, TLC

VARIABLES
    db,        \* the open source store: records sorted by key, ascending
    resp,      \* the response of the request handled last (None once read)
    dest,      \* what is at the snapshot destination path: NoStore or a store
    snap,      \* the running makeSnap call: its locals and its position
    nwrites,   \* number of writes interleaved with the running export
    scans,     \* the /iterate handlers in progress, each with its own locals
    boot       \* the startup: the opening and waiting goroutines, wg, the
               \* global handle db and the two words of mh.Handler

vars == <<db, resp, dest, snap, nwrites, scans, boot>>

-----------------------------------------------------------------------------
(* Bounds of the model.                                                    *)

\* largest "max" query value the small request set asks for
MaxCap == 3
\* longest list of operations in a modelled /batch body
MaxOps == 2
\* most writes interleaved with one export
MaxWrites == 1

(* Program constants.                                                      *)
ABSMAX == 1000
ChunkSize == 1000

\* no response pending: the last one was read by the client
NoResp == [kind |-> "none"]

-----------------------------------------------------------------------------
(* Keys and values are byte strings: sequences of naturals.  The store's   *)
(* order is bytes.Compare, the byte-wise lexicographic order.              *)

Min2(a, b) == IF a <= b THEN a ELSE b

Compare(a, b) ==
    LET n == Min2(Len(a), Len(b))
        diff == {i \in 1..n : a[i] # b[i]}
    IN  IF diff = {}
        THEN (IF Len(a) < Len(b) THEN -1 ELSE IF Len(a) > Len(b) THEN 1 ELSE 0)
        ELSE LET i == CHOOSE j \in diff : \A k \in diff : j <= k
             IN  IF a[i] < b[i] THEN -1 ELSE 1

Rec(k, v) == [key |-> k, value |-> v]

\* a store holds its records in strictly ascending key order
Sorted(s) == \A i \in 1..(Len(s) - 1) : Compare(s[i].key, s[i + 1].key) = -1

KeysOf(s) == {s[i].key : i \in 1..Len(s)}

-----------------------------------------------------------------------------
(* The cursor of the engine, over a read view s: a position in 0..Len+1,   *)
(* valid when it is on a record.                                           *)

\* first position whose key is >= k, Len(s)+1 when there is none
\* (binary search between lo and hi: every position < lo is < k, every
\* position >= hi is >= k)
RECURSIVE SeekIn(_, _, _, _)
SeekIn(s, k, lo, hi) ==
    IF lo >= hi THEN lo
    ELSE CHOOSE p \in {IF Compare(s[mid].key, k) = -1
                         THEN SeekIn(s, k, mid + 1, hi)
                         ELSE SeekIn(s, k, lo, mid) : mid \in {(lo + hi) \div 2}} : TRUE

Seek(s, k) == SeekIn(s, k, 1, Len(s) + 1)
SeekToFirst(s) == 1
SeekToLast(s) == Len(s)
Valid(s, pos) == pos >= 1 /\ pos <= Len(s)
ItNext(pos) == pos + 1
ItPrev(pos) == pos - 1

-----------------------------------------------------------------------------
(* Point operations and the atomic write batch of the engine.              *)

DbGet(s, k) ==
    LET p == Seek(s, k)
    IN  IF Valid(s, p) /\ s[p].key = k
        THEN [found |-> TRUE, value |-> s[p].value]
        ELSE [found |-> FALSE, value |-> <<>>]

\* a put that inserts the record without replacing the one of the same key
DbPut_NoReplace(s, k, v) ==
    LET p == Seek(s, k)
    IN  SubSeq(s, 1, p - 1) \o <<Rec(k, v)>> \o SubSeq(s, p, Len(s))

DbPut(s, k, v) ==
    LET p == Seek(s, k)
    IN  IF Valid(s, p) /\ s[p].key = k
        THEN [s EXCEPT ![p] = Rec(k, v)]
        ELSE SubSeq(s, 1, p - 1) \o <<Rec(k, v)>> \o SubSeq(s, p, Len(s))

DbDelete(s, k) ==
    LET p == Seek(s, k)
    IN  IF Valid(s, p) /\ s[p].key = k
        THEN SubSeq(s, 1, p - 1) \o SubSeq(s, p + 1, Len(s))
        ELSE s

\* one buffered operation of a write batch applied to a store
ApplyOp(s, op) ==
    IF op.op = "put" THEN DbPut(s, op.key, op.value) ELSE DbDelete(s, op.key)

\* the operations wb[lo..hi] applied in order (split in halves, the first
\* half evaluated before the second, so that a batch of ChunkSize operations
\* needs no deep recursion)
RECURSIVE ApplyOps(_, _, _, _)
ApplyOps(s, wb, lo, hi) ==
    IF lo > hi THEN s
    ELSE IF lo = hi THEN ApplyOp(s, wb[lo])
    ELSE LET mid == (lo + hi) \div 2
             left == ApplyOps(s, wb, lo, mid)
         IN  CHOOSE r \in {ApplyOps(l, wb, mid + 1, hi) : l \in {left}} : TRUE

\* a write that applies the operations of the batch from the last to the first
DbWrite_Reversed(s, wb) ==
    CHOOSE r \in {ApplyOps(s, w, 1, Len(w)) :
                     w \in {[i \in 1..Len(wb) |-> wb[Len(wb) + 1 - i]]}} : TRUE

\* db.Write(wo, wb): the whole batch, atomically
DbWrite(s, wb) == CHOOSE r \in {ApplyOps(s, w, 1, Len(w)) : w \in {wb}} : TRUE

-----------------------------------------------------------------------------
(* iterate.go: the directional scan and its two count-capped wrappers.     *)
(* A handler closure is a pair: its captured parameters e and its mutable  *)
(* locals h = [i, more, data].                                             *)

\* the "once" callback of the /iterate handler: collect a key or a key/value
once(skip_values, data, key, value) ==
    IF skip_values THEN Append(data, key) ELSE Append(data, Rec(key, value))

\* oob with the inclusive flag of end ignored: a key equal to end is always valid
oob_EndAlwaysIncluded(key, end, include_end, backwards) ==
    LET cmp == Compare(key, end)
    IN  IF cmp = 0 THEN <<TRUE, FALSE>>
        ELSE IF (cmp = -1 /\ backwards) \/ (cmp = 1 /\ ~backwards)
             THEN <<FALSE, FALSE>>
             ELSE <<TRUE, TRUE>>

\* oob with the two directions exchanged: a key before end is out of range
\* in a forward scan, a key after end in a backward scan
oob_DirectionsSwapped(key, end, include_end, backwards) ==
    LET cmp == Compare(key, end)
    IN  IF cmp = 0 THEN <<include_end, FALSE>>
        ELSE IF (cmp = -1 /\ ~backwards) \/ (cmp = 1 /\ backwards)
             THEN <<FALSE, FALSE>>
             ELSE <<TRUE, TRUE>>

\* oob of iterateUntil: <<valid_now, check_more>>
oob(key, end, include_end, backwards) ==
    LET cmp == Compare(key, end)
    IN  IF cmp = 0 THEN <<include_end, FALSE>>
        ELSE IF (cmp = -1 /\ backwards) \/ (cmp = 1 /\ ~backwards)
             THEN <<FALSE, FALSE>>
             ELSE <<TRUE, TRUE>>

\* the closure of iterateUntil reporting more whenever the cap stops the scan
UntilHandle_MoreAtCap(e, h, key, value) ==
    IF h.i >= e.max
    THEN [h |-> [h EXCEPT !.more = TRUE], stop |-> TRUE]
    ELSE LET r == oob(key, e.end, e.include_end, e.backwards)
         IN  IF ~r[1]
             THEN [h |-> [h EXCEPT !.i = @ + 1], stop |-> TRUE]
             ELSE [h |-> [h EXCEPT !.i = @ + 1,
                                   !.data = once(e.skip_values, @, key, value)],
                   stop |-> ~r[2]]

\* the closure iterateUntil hands to iterate
UntilHandle(e, h, key, value) ==
    IF h.i >= e.max
    THEN [h |-> [h EXCEPT !.more = oob(key, e.end, e.include_end, e.backwards)[1]],
          stop |-> TRUE]
    ELSE LET r == oob(key, e.end, e.include_end, e.backwards)
         IN  IF ~r[1]
             THEN [h |-> [h EXCEPT !.i = @ + 1], stop |-> TRUE]
             ELSE [h |-> [h EXCEPT !.i = @ + 1,
                                   !.data = once(e.skip_values, @, key, value)],
                   stop |-> ~r[2]]

\* the closure of iterateN with the cap test off by one (i > max)
NHandle_CapOffByOne(e, h, key, value) ==
    IF h.i > e.max
    THEN [h |-> h, stop |-> TRUE]
    ELSE [h |-> [h EXCEPT !.i = @ + 1,
                          !.data = once(e.skip_values, @, key, value)],
          stop |-> FALSE]

\* the closure iterateN hands to iterate
NHandle(e, h, key, value) ==
    IF h.i >= e.max
    THEN [h |-> h, stop |-> TRUE]
    ELSE [h |-> [h EXCEPT !.i = @ + 1,
                          !.data = once(e.skip_values, @, key, value)],
          stop |-> FALSE]

Handle(e, h, key, value) ==
    IF e.kind = "until" THEN UntilHandle(e, h, key, value)
    ELSE NHandle(e, h, key, value)

\* where iterate's cursor stands when its loop starts
IterStart(view, start, include_start, backwards) ==
    LET p0 == IF start = <<>>
              THEN (IF backwards THEN SeekToLast(view) ELSE SeekToFirst(view))
              ELSE Seek(view, start)
    IN  IF backwards
        THEN IF ~Valid(view, p0) THEN SeekToLast(view)
             ELSE IF ~include_start /\ view[p0].key # start THEN ItPrev(p0)
             ELSE p0
        ELSE p0

\* one pass of iterate's loop body with the cursor on pos
\* st = [first, stop, h]; once the handler said stop the loop has returned
IterBody(view, start, include_start, e, st, pos) ==
    IF st.stop THEN st
    ELSE IF st.first /\ ~include_start /\ view[pos].key = start
         THEN [st EXCEPT !.first = FALSE]
         ELSE LET r == Handle(e, st.h, view[pos].key, view[pos].value)
              IN  [first |-> FALSE, stop |-> r.stop, h |-> r.h]

\* a backward loop whose proceed does not move the cursor
IterPos_NoPrev(p1, backwards, j) == IF backwards THEN p1 ELSE p1 + (j - 1)

\* the cursor position of the j-th pass: proceed is Next or Prev
IterPos(p1, backwards, j) == IF backwards THEN p1 - (j - 1) ELSE p1 + (j - 1)

\* passes lo..hi of the loop, in order (split in halves: no deep recursion);
\* after a stop the loop has returned and the later passes do not run
RECURSIVE IterLoop(_, _, _, _, _, _, _, _, _)
IterLoop(view, start, include_start, backwards, e, st, p1, lo, hi) ==
    IF lo > hi THEN st
    ELSE IF lo = hi
         THEN IterBody(view, start, include_start, e, st, IterPos(p1, backwards, lo))
         ELSE LET mid == (lo + hi) \div 2
                  left == IterLoop(view, start, include_start, backwards, e, st, p1, lo, mid)
              IN  IF left.stop THEN left
                  ELSE IterLoop(view, start, include_start, backwards, e, left, p1,
                                mid + 1, hi)

\* iterate: the handler's locals when the scan returns
iterate(view, start, include_start, backwards, e, h0) ==
    LET p1 == IterStart(view, start, include_start, backwards)
        n  == IF ~Valid(view, p1) THEN 0
              ELSE IF backwards THEN p1 ELSE Len(view) - p1 + 1
    IN  IterLoop(view, start, include_start, backwards, e,
                 [first |-> TRUE, stop |-> FALSE, h |-> h0], p1, 1, n).h

iterateUntil(view, start, end, max, include_start, include_end, backwards, skip_values) ==
    LET e == [kind |-> "until", max |-> max, end |-> end, include_end |-> include_end,
              backwards |-> backwards, skip_values |-> skip_values]
        h == iterate(view, start, include_start, backwards, e,
                     [i |-> 0, more |-> FALSE, data |-> <<>>])
    IN  [more |-> h.more, data |-> h.data]

iterateN(view, start, max, include_start, backwards, skip_values) ==
    LET e == [kind |-> "n", max |-> max, skip_values |-> skip_values]
        h == iterate(view, start, include_start, backwards, e,
                     [i |-> 0, more |-> FALSE, data |-> <<>>])
    IN  h.data

-----------------------------------------------------------------------------
(* strconv.Atoi on the "max" query value, a sequence of characters.        *)

Digits == <<"0", "1", "2", "3", "4", "5", "6", "7", "8", "9">>
IsDigit(c) == \E d \in 1..10 : Digits[d] = c
DigitVal(c) == (CHOOSE d \in 1..10 : Digits[d] = c) - 1

RECURSIVE ParseDigits(_, _)
ParseDigits(s, acc) ==
    IF s = <<>> THEN acc ELSE ParseDigits(Tail(s), acc * 10 + DigitVal(Head(s)))

\* [ok, val]: an optional sign, then one or more decimal digits
Atoi(s) ==
    LET body == IF s # <<>> /\ Head(s) \in {"-", "+"} THEN Tail(s) ELSE s
    IN  IF body = <<>> \/ \E i \in 1..Len(body) : ~IsDigit(body[i])
        THEN [ok |-> FALSE, val |-> 0]
        ELSE [ok |-> TRUE,
              val |-> IF Head(s) = "-" THEN 0 - ParseDigits(body, 0)
                      ELSE ParseDigits(body, 0)]

-----------------------------------------------------------------------------
(* GET /iterate: the handler, on the read view its iterator opens.         *)

\* no clamp: the parsed max as it is
ClampMax_None(max) == max

\* the clamp of the parsed max to ABSMAX
ClampMax(max) == IF max > ABSMAX THEN ABSMAX ELSE max

IterateHandler(view, q) ==
    LET parsed == Atoi(q.max)
        max == ClampMax(IF q.max = <<>> THEN ABSMAX ELSE parsed.val)
        ignore_start == q.include_start = "no"
        include_end == q.include_end = "yes"
        backwards == q.forward = "no"
        skip_values == q.include_values = "no"
    IN  IF q.max # <<>> /\ ~parsed.ok
        THEN [kind |-> "iterate", code |-> 500, more |-> FALSE, data |-> <<>>, req |-> q]
        ELSE IF q.end = <<>>
        THEN [kind |-> "iterate", code |-> 200, more |-> FALSE,
              data |-> iterateN(view, q.start, max, ~ignore_start, backwards, skip_values),
              req |-> q]
        ELSE LET r == iterateUntil(view, q.start, q.end, max, ~ignore_start,
                                   include_end, backwards, skip_values)
             IN  [kind |-> "iterate", code |-> 200, more |-> r.more, data |-> r.data,
                  req |-> q]

-----------------------------------------------------------------------------
(* batch.go: applyBatch.  The write batch is buffered operation by         *)
(* operation; nothing reaches the store before db.Write.  fail is the      *)
(* engine refusing the write (an I/O error), which leaves the store as it  *)
(* was.  The result is the store afterwards and the error returned.        *)

RECURSIVE BuildBatch(_, _, _)
BuildBatch(ops, j, wb) ==
    IF j > Len(ops) THEN [wb |-> wb, err |-> "nil"]
    ELSE IF ops[j].op = "put"
         THEN BuildBatch(ops, j + 1, Append(wb, [op |-> "put", key |-> ops[j].key,
                                                value |-> ops[j].value]))
    ELSE IF ops[j].op = "delete"
         THEN BuildBatch(ops, j + 1, Append(wb, [op |-> "delete", key |-> ops[j].key,
                                                value |-> <<>>]))
    ELSE [wb |-> wb, err |-> "errBadBatch"]

\* applyBatch writing each operation to the store as it reads it, so that the
\* operations before a bad one have been written when it returns errBadBatch
applyBatch_Unbuffered(s, ops, fail) ==
    LET b == BuildBatch(ops, 1, <<>>)
    IN  IF b.err # "nil" THEN [db |-> DbWrite(s, b.wb), err |-> b.err]
        ELSE IF fail THEN [db |-> s, err |-> "storage"]
        ELSE [db |-> DbWrite(s, b.wb), err |-> "nil"]

\* applyBatch committing one operation per write: a write the engine refuses
\* leaves the operations before it applied
applyBatch_WritePerOp(s, ops, fail) ==
    LET b == BuildBatch(ops, 1, <<>>)
    IN  IF b.err # "nil" THEN [db |-> s, err |-> b.err]
        ELSE IF fail THEN [db |-> DbWrite(s, SubSeq(b.wb, 1, Len(b.wb) - 1)),
                           err |-> "storage"]
        ELSE [db |-> DbWrite(s, b.wb), err |-> "nil"]

applyBatch(s, ops, fail) ==
    LET b == BuildBatch(ops, 1, <<>>)
    IN  IF b.err # "nil" THEN [db |-> s, err |-> b.err]
        ELSE IF fail THEN [db |-> s, err |-> "storage"]
        ELSE [db |-> DbWrite(s, b.wb), err |-> "nil"]

\* POST /batch: map applyBatch's error to a status
BatchCode(err) ==
    IF err = "errBadBatch" THEN 400 ELSE IF err # "nil" THEN 500 ELSE 204

-----------------------------------------------------------------------------
(* The requests of the small model.                                        *)

Keys == {<<>>, <<1>>, <<1, 2>>, <<2>>}
Values == {<<7>>, <<8>>}

RECURSIVE Itoa(_)
Itoa(n) ==
    IF n < 0 THEN <<"-">> \o Itoa(0 - n)
    ELSE IF n < 10 THEN <<Digits[n + 1]>>
    ELSE Itoa(n \div 10) \o <<Digits[(n % 10) + 1]>>

\* "max" query values: absent, not a number, and numbers around the caps
MaxStrings ==
    {<<>>, <<"x">>, <<"1", "x">>, <<"-">>} \cup {Itoa(n) : n \in (-1)..MaxCap}
        \cup {Itoa(ABSMAX + 1)}

Queries ==
    [start : Keys, end : Keys, max : MaxStrings,
     include_start : {"", "no"}, include_end : {"", "yes"},
     forward : {"", "no"}, include_values : {"", "no"}]

\* the operations of the modelled /batch bodies: put, delete and an unknown kind
BatchKeys == {<<1>>, <<2>>}
Ops ==
    [op : {"put"}, key : BatchKeys, value : Values]
        \cup [op : {"delete"}, key : BatchKeys, value : {<<>>}]
        \cup [op : {"merge"}, key : {<<1>>}, value : {<<7>>}]

RECURSIVE SeqsUpTo(_, _)
SeqsUpTo(S, n) ==
    IF n = 0 THEN {<<>>}
    ELSE LET shorter == SeqsUpTo(S, n - 1)
         IN  shorter \cup {Append(q, x) : q \in {r \in shorter : Len(r) = n - 1}, x \in S}

Batches == SeqsUpTo(Ops, MaxOps)

-----------------------------------------------------------------------------
(* The state machine: one action per request handler.  A handler runs to   *)
(* its response; the client reads the response before the next request.    *)

\* the startup finished: OpenDB has returned, wg.Wait() has returned and
\* mh.Handler holds the router
Booted == [opener |-> "done", wg |-> 0, waiter |-> "done", dbh |-> "open",
           tab |-> "router", data |-> "router"]

NoSnap == [pc |-> "idle"]
ScanIds == {1, 2}
NoScans == [id \in ScanIds |-> [pc |-> "idle"]]
NoDest == [exists |-> FALSE, store |-> <<>>]

Init ==
    /\ db = <<>>
    /\ resp = NoResp
    /\ dest = NoDest
    /\ snap = NoSnap
    /\ nwrites = 0
    /\ scans = NoScans
    /\ boot = Booted

\* GET /key/<name>
KeyGet(k) ==
    /\ resp.kind = "none"
    /\ LET b == DbGet(db, k)
       IN  resp' = IF ~b.found
                   THEN [kind |-> "get", code |-> 404, key |-> k, body |-> <<>>]
                   ELSE [kind |-> "get", code |-> 200, key |-> k, body |-> b.value]
    /\ UNCHANGED <<db, dest, snap, nwrites, scans, boot>>

\* PUT /key/<name>: what the handler does to the store, and its response
PutHandler(k, v, fail) ==
    /\ db' = IF fail THEN db ELSE DbPut(db, k, v)
    /\ resp' = [kind |-> "put", code |-> IF fail THEN 500 ELSE 204, key |-> k, body |-> v]

\* DELETE /key/<name>
DeleteHandler(k, fail) ==
    /\ db' = IF fail THEN db ELSE DbDelete(db, k)
    /\ resp' = [kind |-> "delete", code |-> IF fail THEN 500 ELSE 204, key |-> k,
                body |-> <<>>]

\* POST /batch
BatchHandler(ops, fail) ==
    \E r \in {applyBatch(db, ops, fail)} :
        /\ db' = r.db
        /\ resp' = [kind |-> "batch", code |-> BatchCode(r.err), ops |-> ops,
                    before |-> db]

KeyPut(k, v, fail) ==
    /\ resp.kind = "none"
    /\ PutHandler(k, v, fail)
    /\ UNCHANGED <<dest, snap, nwrites, scans, boot>>

KeyDelete(k, fail) ==
    /\ resp.kind = "none"
    /\ DeleteHandler(k, fail)
    /\ UNCHANGED <<dest, snap, nwrites, scans, boot>>

Batch(ops, fail) ==
    /\ resp.kind = "none"
    /\ BatchHandler(ops, fail)
    /\ UNCHANGED <<dest, snap, nwrites, scans, boot>>

\* GET /iterate
Iterate(q) ==
    /\ resp.kind = "none"
    /\ resp' = IterateHandler(db, q)
    /\ UNCHANGED <<db, dest, snap, nwrites, scans, boot>>

\* the client has read the response
Ack ==
    /\ resp.kind # "none"
    /\ resp' = NoResp
    /\ UNCHANGED <<db, dest, snap, nwrites, scans, boot>>

Next ==
    \/ \E k \in Keys : KeyGet(k)
    \/ \E k \in Keys, v \in Values, fail \in BOOLEAN : KeyPut(k, v, fail)
    \/ \E k \in Keys, fail \in BOOLEAN : KeyDelete(k, fail)
    \/ \E ops \in Batches, fail \in BOOLEAN : Batch(ops, fail)
    \/ \E q \in Queries : Iterate(q)
    \/ Ack

Spec == Init /\ [][Next]_vars

-----------------------------------------------------------------------------
(* The scan when a read of the cursor fails: the iterator turns invalid    *)
(* and keeps the error for it.GetError(), which iterate never calls.       *)

\* what a forward cursor offers when its read of record f fails: it.Valid()
\* is false once the cursor is on f, so the records before f
FailingView(s, f) == SubSeq(s, 1, f - 1)

\* GET /iterate, forward, cut short by the cursor failing on record f
IterateCursorFails(q, f) ==
    /\ resp.kind = "none"
    /\ q.forward # "no"
    /\ f \in 1..Len(db)
    /\ IterateHandler(FailingView(db, f), q) # IterateHandler(db, q)
    /\ \E r \in {IterateHandler(FailingView(db, f), q)} :
          resp' = [kind |-> r.kind, code |-> r.code, more |-> r.more, data |-> r.data,
                   req |-> r.req, iterr |-> "io"]
    /\ UNCHANGED <<db, dest, snap, nwrites, scans, boot>>

NextScanFault ==
    \/ \E k \in Keys, v \in Values, fail \in BOOLEAN : KeyPut(k, v, fail)
    \/ \E k \in Keys, fail \in BOOLEAN : KeyDelete(k, fail)
    \/ \E q \in Queries, f \in 1..Cardinality(Keys) : IterateCursorFails(q, f)
    \/ Ack

SpecScanFault == Init /\ [][NextScanFault]_vars

-----------------------------------------------------------------------------
(* Interleaved scans: the /iterate handler pass by pass.  Each request has *)
(* its own iterator (on the store as it was when the iterator was opened), *)
(* and the closure's i, more and data are locals of the call; scans[id]    *)
(* holds them while the handler of request id runs.                        *)

\* the parameters captured by the closure the handler hands to iterate
ScanClosure(q) ==
    LET max == ClampMax(IF q.max = <<>> THEN ABSMAX ELSE Atoi(q.max).val)
    IN  IF q.end = <<>>
        THEN [kind |-> "n", max |-> max, skip_values |-> q.include_values = "no"]
        ELSE [kind |-> "until", max |-> max, end |-> q.end,
              include_end |-> q.include_end = "yes", backwards |-> q.forward = "no",
              skip_values |-> q.include_values = "no"]

\* a closure counter that is one variable of the package, shared by the
\* handlers in progress: each sees the largest count so far
ScanLocals_SharedCounter(id) ==
    LET running == {j \in ScanIds : scans[j].pc = "loop"}
        most == CHOOSE n \in {scans[j].st.h.i : j \in running} :
                    \A j \in running : scans[j].st.h.i <= n
    IN  [scans[id].st EXCEPT !.h.i = most]

\* the locals the closure of request id reads and writes
ScanLocals(id) == scans[id].st

\* the handler up to the loop of iterate: parse max, open the iterator, seek
ScanBegin(id, q) ==
    /\ scans[id].pc = "idle"
    /\ IF q.max # <<>> /\ ~Atoi(q.max).ok
       THEN scans' = [scans EXCEPT ![id] =
                [pc |-> "done", q |-> q, resp |-> IterateHandler(db, q)]]
       ELSE scans' = [scans EXCEPT ![id] =
                [pc |-> "loop", q |-> q, view |-> db,
                 pos |-> IterStart(db, q.start, q.include_start # "no", q.forward = "no"),
                 st |-> [first |-> TRUE, stop |-> FALSE,
                         h |-> [i |-> 0, more |-> FALSE, data |-> <<>>]]]]
    /\ UNCHANGED <<db, resp, dest, snap, nwrites, boot>>

\* one pass of iterate's loop for request id, then proceed
ScanStep(id) ==
    /\ scans[id].pc = "loop"
    /\ Valid(scans[id].view, scans[id].pos)
    /\ ~scans[id].st.stop
    /\ LET sc == scans[id]
       IN  scans' = [scans EXCEPT ![id] =
                [sc EXCEPT !.st = IterBody(sc.view, sc.q.start, sc.q.include_start # "no",
                                           ScanClosure(sc.q), ScanLocals(id), sc.pos),
                           !.pos = IF sc.q.forward = "no" THEN ItPrev(@) ELSE ItNext(@)]]
    /\ UNCHANGED <<db, resp, dest, snap, nwrites, boot>>

\* iterate has returned: the handler writes its response
ScanEnd(id) ==
    /\ scans[id].pc = "loop"
    /\ ~Valid(scans[id].view, scans[id].pos) \/ scans[id].st.stop
    /\ LET sc == scans[id]
       IN  scans' = [scans EXCEPT ![id] =
                [pc |-> "done", q |-> sc.q,
                 resp |-> [kind |-> "iterate", code |-> 200,
                           more |-> IF sc.q.end = <<>> THEN FALSE ELSE sc.st.h.more,
                           data |-> sc.st.h.data, req |-> sc.q]]]
    /\ UNCHANGED <<db, resp, dest, snap, nwrites, boot>>

\* the client of request id has read the response
ScanAck(id) ==
    /\ scans[id].pc = "done"
    /\ scans' = [scans EXCEPT ![id] = [pc |-> "idle"]]
    /\ UNCHANGED <<db, resp, dest, snap, nwrites, boot>>

ScanStores ==
    {<<Rec(<<1>>, <<7>>)>>,
     <<Rec(<<1>>, <<7>>), Rec(<<1, 2>>, <<8>>), Rec(<<2>>, <<7>>)>>}

ScanQueries ==
    [start : {<<>>, <<1, 2>>}, end : {<<>>, <<1>>, <<2>>}, max : {<<>>, <<"x">>, Itoa(1)},
     include_start : {"", "no"}, include_end : {"yes"},
     forward : {"", "no"}, include_values : {"no"}]

InitScans ==
    /\ db \in ScanStores
    /\ resp = NoResp
    /\ dest = NoDest
    /\ snap = NoSnap
    /\ nwrites = 0
    /\ scans = NoScans
    /\ boot = Booted

NextScans ==
    \/ \E id \in ScanIds, q \in ScanQueries : ScanBegin(id, q)
    \/ \E id \in ScanIds : ScanStep(id)
    \/ \E id \in ScanIds : ScanEnd(id)
    \/ \E id \in ScanIds : ScanAck(id)

SpecScans == InitScans /\ [][NextScans]_vars

-----------------------------------------------------------------------------
(* Large stores: n records with two-byte big-endian keys, so that the      *)
(* clamp at ABSMAX and the chunks of makeSnap are reached.                 *)

BigKey(j) == <<j \div 256, j % 256>>
BigStore(n) == [j \in 1..n |-> Rec(BigKey(j), <<j % 3>>)]

ScanSizes == {ABSMAX - 1, ABSMAX, ABSMAX + 1}
BigQueries ==
    [start : {<<>>, BigKey(2)}, end : {<<>>, BigKey(3), BigKey(ABSMAX + 1)},
     max : {<<>>, Itoa(-1), Itoa(ABSMAX - 1), Itoa(ABSMAX), Itoa(ABSMAX + 1)},
     include_start : {"", "no"}, include_end : {"", "yes"},
     forward : {"", "no"}, include_values : {"no"}]

InitScan ==
    /\ db \in {BigStore(n) : n \in ScanSizes}
    /\ resp = NoResp
    /\ dest = NoDest
    /\ snap = NoSnap
    /\ nwrites = 0
    /\ scans = NoScans
    /\ boot = Booted

NextScan ==
    \/ \E q \in BigQueries : Iterate(q)
    \/ Ack

SpecScan == InitScan /\ [][NextScan]_vars

-----------------------------------------------------------------------------
(* snapshot.go: makeSnap, step by step, so that writes to the source       *)
(* interleave with it.  snap holds its locals: the read view ss, the       *)
(* cursor position pos, the write batch wb, the counter i, and err once it *)
(* has returned; iterr is what it.GetError() would report, and commits is  *)
(* the number of operations of each write batch handed to dumpBatch.       *)

\* an iterator opened without the snapshot: it reads the live store
SnapView_Live(sn, live) == live

\* the read view the export's iterator reads: the snapshot taken at line 15
SnapView(sn, live) == sn.ss

\* no commit after the loop
NeedsFinalCommit_Never(i) == FALSE

\* a commit after every loop, pending records or not
NeedsFinalCommit_Always(i) == TRUE

\* the condition of the commit after the loop (line 38)
NeedsFinalCommit(i) == i % ChunkSize # 0

\* levigo.DestroyDatabase(dest, opts) at the fail label: the error it returns
\* is discarded, and it runs while the handle "to" is still open (the deferred
\* Close runs after it), so a destroy the engine refuses leaves the store
DestroyDatabase(d, destroyed) == IF destroyed THEN NoDest ELSE d

\* makeSnap returning: the deferred it.Close() and to.Close() (lines 21, 13)
\* run here, after every statement of the body; nothing releases the snapshot
Returned(err) == [pc |-> "returned", ss |-> snap.ss, pos |-> snap.pos, wb |-> <<>>,
                  i |-> snap.i, err |-> err, iterr |-> snap.iterr,
                  commits |-> snap.commits, to |-> "closed",
                  snapshots |-> snap.snapshots]

\* it.Valid(): false past the last record and after a read of the cursor failed
ItValid(sn, live) == sn.iterr = "nil" /\ Valid(SnapView(sn, live), sn.pos)

\* makeSnap going to its fail label when levigo.Open refuses the destination
SnapOpen_DestroysOnError ==
    /\ snap.pc = "idle"
    /\ IF dest.exists
       THEN /\ snap' = [pc |-> "returned", ss |-> <<>>, pos |-> 0, wb |-> <<>>, i |-> 0,
                        err |-> "exists", iterr |-> "nil", commits |-> <<>>,
                        to |-> "none", snapshots |-> 0]
            /\ dest' = DestroyDatabase(dest, TRUE)
       ELSE /\ snap' = [pc |-> "opened", ss |-> <<>>, pos |-> 0, wb |-> <<>>, i |-> 0,
                        err |-> "nil", iterr |-> "nil", commits |-> <<>>,
                        to |-> "open", snapshots |-> 0]
            /\ dest' = [exists |-> TRUE, store |-> <<>>]
    /\ UNCHANGED <<db, resp, nwrites, scans, boot>>

\* lines 6-13: open a new store at dest, an error if one exists
SnapOpen ==
    /\ snap.pc = "idle"
    /\ IF dest.exists
       THEN /\ snap' = [pc |-> "returned", ss |-> <<>>, pos |-> 0, wb |-> <<>>, i |-> 0,
                        err |-> "exists", iterr |-> "nil", commits |-> <<>>,
                        to |-> "none", snapshots |-> 0]
            /\ UNCHANGED dest
       ELSE /\ snap' = [pc |-> "opened", ss |-> <<>>, pos |-> 0, wb |-> <<>>, i |-> 0,
                        err |-> "nil", iterr |-> "nil", commits |-> <<>>,
                        to |-> "open", snapshots |-> 0]
            /\ dest' = [exists |-> TRUE, store |-> <<>>]
    /\ UNCHANGED <<db, resp, nwrites, scans, boot>>

\* lines 15-26: take the snapshot, open the iterator on it, SeekToFirst
SnapAcquire ==
    /\ snap.pc = "opened"
    /\ snap' = [snap EXCEPT !.pc = "loop", !.ss = db, !.pos = SeekToFirst(db),
                             !.snapshots = @ + 1]
    /\ UNCHANGED <<db, resp, dest, nwrites, scans, boot>>

\* lines 26-36: one pass of the loop; fail is dest.Write refusing the chunk
SnapStep(fail) ==
    /\ snap.pc = "loop"
    /\ ItValid(snap, db)
    /\ LET r == SnapView(snap, db)[snap.pos]
           wb == Append(snap.wb, [op |-> "put", key |-> r.key, value |-> r.value])
           i == snap.i + 1
       IN  IF i % ChunkSize = 0
           THEN IF fail
                THEN /\ snap' = [snap EXCEPT !.pc = "fail", !.err = "storage",
                                             !.wb = <<>>, !.i = i,
                                             !.commits = Append(@, Len(wb))]
                     /\ UNCHANGED dest
                ELSE /\ dest' = [dest EXCEPT !.store = DbWrite(@, wb)]
                     /\ snap' = [snap EXCEPT !.wb = <<>>, !.i = i, !.pos = ItNext(@),
                                             !.commits = Append(@, Len(wb))]
           ELSE /\ snap' = [snap EXCEPT !.wb = wb, !.i = i, !.pos = ItNext(@)]
                /\ UNCHANGED dest
    /\ UNCHANGED <<db, resp, nwrites, scans, boot>>

\* lines 38-45: the iterator is exhausted; commit what is pending, return
SnapFinish(fail) ==
    /\ snap.pc = "loop"
    /\ ~ItValid(snap, db)
    /\ IF NeedsFinalCommit(snap.i)
       THEN IF fail
            THEN /\ snap' = [snap EXCEPT !.pc = "fail", !.err = "storage",
                                         !.wb = <<>>,
                                         !.commits = Append(@, Len(snap.wb))]
                 /\ UNCHANGED dest
            ELSE /\ dest' = [dest EXCEPT !.store = DbWrite(@, snap.wb)]
                 /\ snap' = [Returned("nil") EXCEPT
                                !.commits = Append(@, Len(snap.wb))]
       ELSE /\ snap' = Returned("nil")
            /\ UNCHANGED dest
    /\ UNCHANGED <<db, resp, nwrites, scans, boot>>

\* lines 47-49: the fail label: destroy the store at dest, then return the
\* error, which runs the deferred calls
SnapFail ==
    /\ snap.pc = "fail"
    /\ \E destroyed \in BOOLEAN : dest' = DestroyDatabase(dest, destroyed)
    /\ snap' = Returned(snap.err)
    /\ UNCHANGED <<db, resp, nwrites, scans, boot>>

\* a write handler running while the export, its read view taken, is between
\* two steps
ExportRunning == snap.pc = "loop"

WritePut(k, v) ==
    /\ ExportRunning /\ nwrites < MaxWrites
    /\ PutHandler(k, v, FALSE)
    /\ nwrites' = nwrites + 1
    /\ UNCHANGED <<dest, snap, scans, boot>>

WriteDelete(k) ==
    /\ ExportRunning /\ nwrites < MaxWrites
    /\ DeleteHandler(k, FALSE)
    /\ nwrites' = nwrites + 1
    /\ UNCHANGED <<dest, snap, scans, boot>>

WriteBatch(ops) ==
    /\ ExportRunning /\ nwrites < MaxWrites
    /\ BatchHandler(ops, FALSE)
    /\ nwrites' = nwrites + 1
    /\ UNCHANGED <<dest, snap, scans, boot>>

SnapSizes == {0, 1, ChunkSize - 1, ChunkSize, ChunkSize + 1}
\* the writes tried during an export: a put of a key the source does not hold,
\* a delete of one it holds, a batch that overwrites one and deletes another
SnapWriteKeys == {BigKey(3 * ChunkSize)}
SnapDeleteKeys == {BigKey(2)}
SnapBatches ==
    {<<[op |-> "put", key |-> BigKey(2), value |-> <<9>>],
       [op |-> "delete", key |-> BigKey(1), value |-> <<>>]>>}

InitSnap ==
    /\ db \in {BigStore(n) : n \in SnapSizes}
    /\ resp = NoResp
    /\ dest \in {NoDest, [exists |-> TRUE, store |-> BigStore(1)]}
    /\ snap = NoSnap
    /\ nwrites = 0
    /\ scans = NoScans
    /\ boot = Booted

NextSnap ==
    \/ SnapOpen
    \/ SnapAcquire
    \/ \E fail \in BOOLEAN : SnapStep(fail)
    \/ \E fail \in BOOLEAN : SnapFinish(fail)
    \/ SnapFail
    \/ \E k \in SnapWriteKeys : WritePut(k, <<9>>)
    \/ \E k \in SnapDeleteKeys : WriteDelete(k)
    \/ \E ops \in SnapBatches : WriteBatch(ops)

SpecSnap == InitSnap /\ [][NextSnap]_vars

-----------------------------------------------------------------------------
(* The export when a read of the source cursor fails: the iterator turns   *)
(* invalid and keeps the error for it.GetError(), which makeSnap never     *)
(* calls.                                                                  *)

\* a read of the cursor fails while it stands on a record (lines 26-27)
SnapCursorFails ==
    /\ snap.pc = "loop"
    /\ ItValid(snap, db)
    /\ snap' = [snap EXCEPT !.iterr = "io"]
    /\ UNCHANGED <<db, resp, dest, nwrites, scans, boot>>

NextSnapFault ==
    \/ SnapOpen
    \/ SnapAcquire
    \/ \E fail \in BOOLEAN : SnapStep(fail)
    \/ \E fail \in BOOLEAN : SnapFinish(fail)
    \/ SnapFail
    \/ SnapCursorFails

SpecSnapFault == InitSnap /\ [][NextSnapFault]_vars

-----------------------------------------------------------------------------
(* What a scan response says, read back from the response and its request. *)

ScanOk == resp.kind = "iterate" /\ resp.code = 200
RqBackwards == resp.req.forward = "no"
RqInclStart == resp.req.include_start # "no"
RqInclEnd == resp.req.include_end = "yes"
RqSkipValues == resp.req.include_values = "no"
RqBounded == resp.req.end # <<>>
\* the count cap in force: the requested max, 1000 when absent or larger
RqCap == ClampMax(IF resp.req.max = <<>> THEN ABSMAX ELSE Atoi(resp.req.max).val)

Before(a, b) == Compare(a, b) = -1

DataKeys ==
    [i \in 1..Len(resp.data) |->
        IF RqSkipValues THEN resp.data[i] ELSE resp.data[i].key]

\* k is within the end bound of the request, seen in scan direction
WithinEnd(k) ==
    \/ k = resp.req.end /\ RqInclEnd
    \/ IF RqBackwards THEN Before(resp.req.end, k) ELSE Before(k, resp.req.end)

\* k is at or after the start of the request, seen in scan direction
\* (an empty start is the first key forward, the last key backward)
WithinStart(k) ==
    \/ k = resp.req.start /\ RqInclStart
    \/ IF resp.req.start = <<>> THEN k # <<>>
       ELSE IF RqBackwards THEN Before(k, resp.req.start)
       ELSE Before(resp.req.start, k)

\* the keys the cursor offers to the count-capped wrappers: the scan of the
\* same start and direction with a cap no store reaches
Candidates ==
    iterateN(db, resp.req.start, Len(db) + 1, RqInclStart, RqBackwards, TRUE)

\* the response the same request gets with no cap
Uncapped ==
    IF RqBounded
    THEN iterateUntil(db, resp.req.start, resp.req.end, Len(db) + 1, RqInclStart,
                      RqInclEnd, RqBackwards, RqSkipValues)
    ELSE [more |-> FALSE,
          data |-> iterateN(db, resp.req.start, Len(db) + 1, RqInclStart,
                            RqBackwards, RqSkipValues)]

\* data is the stored keys of S, each once, in scan direction, with their values
DataIsExactly(S) ==
    /\ Len(resp.data) = Cardinality(S)
    /\ \A i \in 1..Len(resp.data) :
          /\ DataKeys[i] \in S
          /\ ~RqSkipValues => resp.data[i].value = DbGet(db, DataKeys[i]).value
    /\ \A i \in 1..(Len(resp.data) - 1) :
          IF RqBackwards THEN Before(DataKeys[i + 1], DataKeys[i])
          ELSE Before(DataKeys[i], DataKeys[i + 1])

\* data is the first m keys of S in scan direction
DataIsFirstOf(S, m) ==
    /\ Len(resp.data) = m
    /\ \A i \in 1..Len(resp.data) :
          /\ DataKeys[i] \in S
          /\ Cardinality({k \in S : IF RqBackwards THEN Before(DataKeys[i], k)
                                    ELSE Before(k, DataKeys[i])}) = i - 1

-----------------------------------------------------------------------------
(* C1: for a bounded scan, more is true exactly when the scan stopped at   *)
(* the count cap with the next key of the cursor still within the end      *)
(* bound (before end in scan direction, or equal to an inclusive end).     *)
C1_MoreIffTruncatedBeforeEnd ==
    (ScanOk /\ RqBounded) =>
        (resp.more <=>
            /\ Len(resp.data) >= RqCap
            /\ Len(resp.data) < Len(Candidates)
            /\ WithinEnd(Candidates[Len(resp.data) + 1]))

C1_Witness ==
    /\ ScanOk /\ RqBounded /\ RqBackwards
    /\ resp.more /\ Len(resp.data) = 2

\* a second case of C1: the cap is reached and the next key is an exclusive end
C1_WitnessNoMore ==
    /\ ScanOk /\ RqBounded /\ ~resp.more
    /\ Len(resp.data) = RqCap /\ Len(resp.data) >= 1
    /\ Len(resp.data) < Len(Candidates)
    /\ Candidates[Len(resp.data) + 1] = resp.req.end

(* C2: a forward bounded scan whose range holds no more keys than the cap  *)
(* returns exactly the stored keys between start and end, ascending, a key *)
(* equal to start iff include_start, a key equal to end iff include_end,   *)
(* and more = false.                                                       *)
C2_Range == {k \in KeysOf(db) : WithinStart(k) /\ WithinEnd(k)}

C2_ForwardRangeExact ==
    (ScanOk /\ RqBounded /\ ~RqBackwards /\ Cardinality(C2_Range) <= RqCap) =>
        (DataIsExactly(C2_Range) /\ ~resp.more)

C2_Witness ==
    /\ ScanOk /\ RqBounded /\ ~RqBackwards
    /\ ~RqInclStart /\ resp.req.start \in KeysOf(db)
    /\ RqInclEnd /\ resp.req.end \in KeysOf(db)
    /\ Len(resp.data) = 2 /\ Len(resp.data) = RqCap
    /\ DataKeys[2] = resp.req.end

(* C3: the cap only truncates: with a cap max >= 0, data is the first      *)
(* min(max, n) records of what the same request returns with no cap (n its *)
(* length), and a bounded scan with n > max has more = true.               *)
C3_CapOnlyTruncates ==
    (ScanOk /\ RqCap >= 0) =>
        LET un == Uncapped
            n == Len(un.data)
        IN  /\ resp.data = SubSeq(un.data, 1, Min2(RqCap, n))
            /\ (RqBounded /\ n > RqCap) => resp.more

C3_Witness ==
    /\ ScanOk /\ RqBounded /\ RqCap = 2
    /\ Len(Uncapped.data) = 3 /\ Len(resp.data) = 2 /\ resp.more

(* C4: an open-ended scan returns the first min(max, n) records reachable  *)
(* from start in scan direction, and more = false.                          *)
C4_Reachable == {k \in KeysOf(db) : WithinStart(k)}

C4_OpenEndedFirstN ==
    (ScanOk /\ ~RqBounded /\ RqCap >= 0) =>
        /\ DataIsFirstOf(C4_Reachable, Min2(RqCap, Cardinality(C4_Reachable)))
        /\ ~resp.more

\* the same statement for forward scans only
C4_ForwardOnly ==
    (ScanOk /\ ~RqBounded /\ RqCap >= 0 /\ ~RqBackwards) =>
        /\ DataIsFirstOf(C4_Reachable, Min2(RqCap, Cardinality(C4_Reachable)))
        /\ ~resp.more

(* C5: the returned keys are strictly ascending in a forward scan and      *)
(* strictly descending in a backward scan.                                 *)
C5_StrictlyOrdered ==
    ScanOk =>
        \A i \in 1..(Len(resp.data) - 1) :
            Compare(DataKeys[i], DataKeys[i + 1]) = (IF RqBackwards THEN 1 ELSE -1)

C5_Witness ==
    /\ ScanOk /\ RqBackwards /\ Len(resp.data) = 3
    /\ ~RqInclStart /\ resp.req.start # <<>>

-----------------------------------------------------------------------------
\* the max the request asks for: 1000 when the parameter is absent
RqRequested == IF resp.req.max = <<>> THEN ABSMAX ELSE Atoi(resp.req.max).val

Max2(a, b) == IF a >= b THEN a ELSE b

(* C6 as stated: len(data) <= min(requested max, 1000) for every request   *)
(* whose max parses or is absent.                                          *)
C6_LenWithinMin ==
    ScanOk => Len(resp.data) <= Min2(RqRequested, ABSMAX)

(* C6 amended: len(data) <= max(0, min(requested max, 1000)); a max above   *)
(* 1000 is clamped to 1000, an absent max means 1000, a negative max        *)
(* returns no data.                                                         *)
C6_LenWithinClampedCap ==
    ScanOk => Len(resp.data) <= Max2(0, Min2(RqRequested, ABSMAX))

C6_Witness ==
    /\ ScanOk /\ resp.req.max = Itoa(ABSMAX + 1)
    /\ Len(db) > ABSMAX /\ Len(resp.data) = ABSMAX

\* the absent max: the scan of a store of more than 1000 keys stops at 1000
C6_WitnessAbsent ==
    /\ ScanOk /\ resp.req.max = <<>>
    /\ Len(db) > ABSMAX /\ Len(resp.data) = ABSMAX

(* C7: a batch with an operation that is neither put nor delete is answered *)
(* 400 and leaves the store as it was, the valid operations before the bad  *)
(* one included.                                                            *)
HasBadOp(ops) == \E j \in 1..Len(ops) : ops[j].op \notin {"put", "delete"}

C7_BadBatchChangesNothing ==
    (resp.kind = "batch" /\ HasBadOp(resp.ops)) =>
        (resp.code = 400 /\ db = resp.before)

C7_Witness ==
    /\ resp.kind = "batch" /\ Len(resp.ops) = 2
    /\ resp.ops[1].op = "put" /\ resp.ops[2].op = "merge"
    /\ DbGet(db, resp.ops[1].key).value # resp.ops[1].value
    /\ resp.code = 400

(* C8: a well-formed batch reaches the store in one step, all of its        *)
(* operations or none: every step of a batch handler takes the store to the *)
(* state with the whole batch applied, or, when the commit fails, leaves it *)
(* as it was; no state in between is ever the store's.                      *)
C8_BatchAllOrNothing ==
    [][(resp'.kind = "batch" /\ ~HasBadOp(resp'.ops)) =>
          IF resp'.code = 204 THEN db' = DbWrite(db, resp'.ops)
          ELSE resp'.code = 500 /\ db' = db]_vars

C8_Witness ==
    /\ resp.kind = "batch" /\ resp.code = 204 /\ Len(resp.ops) = 2
    /\ resp.ops[1].key # resp.ops[2].key
    /\ db # resp.before
    /\ ApplyOp(resp.before, resp.ops[1]) # db
    /\ ApplyOp(resp.before, resp.ops[1]) # resp.before

\* the failed commit of a batch whose first operation would change the store
C8_WitnessFailed ==
    /\ resp.kind = "batch" /\ resp.code = 500 /\ Len(resp.ops) = 2
    /\ ApplyOp(resp.before, resp.ops[1]) # resp.before
    /\ db = resp.before

(* C9: after a successful export the destination holds exactly the records  *)
(* of the read view the export took of the source: same keys, same values,  *)
(* nothing more, for sources below, at and above the chunk size.            *)
ExportOk == snap.pc = "returned" /\ snap.err = "nil"

C9_SnapshotRoundTrip ==
    ExportOk => (dest.exists /\ dest.store = snap.ss)

C9_Witness ==
    /\ ExportOk /\ Len(snap.ss) = ChunkSize + 1 /\ dest.store = snap.ss

C9_WitnessBelow ==
    /\ ExportOk /\ Len(snap.ss) = ChunkSize - 1 /\ dest.store = snap.ss

C9_WitnessEqual ==
    /\ ExportOk /\ Len(snap.ss) = ChunkSize /\ dest.store = snap.ss

(* C10: a write to the source after the export took its read view never     *)
(* shows in the destination, which holds records of the read view only, and *)
(* the export never blocks such a write: while the export is between two    *)
(* steps a put, a delete and a batch can each complete.                     *)
C10_WritesInvisibleNotBlocked ==
    /\ (snap.pc = "loop" \/ ExportOk) =>
          /\ dest.store = SubSeq(snap.ss, 1, Len(dest.store))
          /\ Len(dest.store) + Len(snap.wb) <= Len(snap.ss)
          /\ \A j \in 1..Len(snap.wb) :
                Rec(snap.wb[j].key, snap.wb[j].value) = snap.ss[Len(dest.store) + j]
    /\ (snap.pc = "loop" /\ nwrites < MaxWrites) =>
          /\ ENABLED (\E k \in SnapWriteKeys : WritePut(k, <<9>>))
          /\ ENABLED (\E k \in SnapDeleteKeys : WriteDelete(k))
          /\ ENABLED (\E ops \in SnapBatches : WriteBatch(ops))

C10_Witness ==
    /\ ExportOk /\ nwrites >= 1
    /\ Len(snap.ss) >= ChunkSize
    /\ db # snap.ss
    /\ dest.store = snap.ss

(* C11: an export to a destination that already holds a store returns an    *)
(* error in its first step, and that step changes neither the source nor    *)
(* what is at the destination.                                              *)
C11_ExistingDestUntouched ==
    [][(snap.pc = "idle" /\ dest.exists /\ snap' # snap) =>
          /\ snap'.pc = "returned" /\ snap'.err # "nil"
          /\ dest' = dest
          /\ db' = db]_vars

C11_Witness ==
    /\ snap.pc = "returned" /\ snap.err = "exists"
    /\ dest.exists /\ Len(dest.store) > 0

(* C12 as stated: an export in which a chunk commit or a read of the source *)
(* cursor failed has returned an error, and no store is at the destination. *)
ExportFailed ==
    /\ snap.pc = "returned"
    /\ snap.err = "storage" \/ snap.iterr # "nil"

C12_FailedExportLeavesNothing ==
    ExportFailed => (snap.err # "nil" /\ ~dest.exists)

(* C13 as stated: an /iterate request whose max is present and not an       *)
(* integer is answered 400 and scans nothing.                               *)
C13_BadMaxIs400 ==
    (resp.kind = "iterate" /\ resp.req.max # <<>> /\ ~Atoi(resp.req.max).ok) =>
        (resp.code = 400 /\ resp.data = <<>>)

\* what the handler does with such a request: no scan, and failErr's status
C13_BadMaxIs500 ==
    (resp.kind = "iterate" /\ resp.req.max # <<>> /\ ~Atoi(resp.req.max).ok) =>
        (resp.code = 500 /\ resp.data = <<>>)

(* C17 as stated: a backward bounded scan with a non-empty start whose      *)
(* range holds no more keys than the cap returns exactly the stored keys    *)
(* from start down to end, descending, a key equal to start iff             *)
(* include_start, a key equal to end iff include_end; no key is greater     *)
(* than start.                                                              *)
C17_Range == {k \in KeysOf(db) : WithinStart(k) /\ WithinEnd(k)}

C17_BackwardRangeExact ==
    (ScanOk /\ RqBounded /\ RqBackwards /\ resp.req.start # <<>>
        /\ Cardinality(C17_Range) <= RqCap) =>
        /\ DataIsExactly(C17_Range)
        /\ \A i \in 1..Len(resp.data) : ~Before(resp.req.start, DataKeys[i])

\* the same statement for the scans whose cursor iterate positions as its
\* comment says: start excluded, start stored, or no stored key after start
C17_WhenSeekNeedsNoStepBack ==
    (ScanOk /\ RqBounded /\ RqBackwards /\ resp.req.start # <<>>
        /\ Cardinality(C17_Range) <= RqCap
        /\ (\/ ~RqInclStart
            \/ resp.req.start \in KeysOf(db)
            \/ \A k \in KeysOf(db) : ~Before(resp.req.start, k))) =>
        /\ DataIsExactly(C17_Range)
        /\ \A i \in 1..Len(resp.data) : ~Before(resp.req.start, DataKeys[i])

(* C18 as stated: with an empty start, on a store that holds keys and no    *)
(* empty key, the first record yielded is the smallest key (forward) or the *)
(* largest key (backward), for either value of include_start.               *)
ExtremeKey == IF RqBackwards THEN db[Len(db)].key ELSE db[1].key

C18_EmptyStartAtExtreme ==
    (ScanOk /\ resp.req.start = <<>> /\ db # <<>> /\ <<>> \notin KeysOf(db)
        /\ RqCap >= 1 /\ (RqBounded => WithinEnd(ExtremeKey))) =>
        (Len(resp.data) >= 1 /\ DataKeys[1] = ExtremeKey)

\* the same statement without the backward scans that exclude start
C18_ExceptBackwardExclusive ==
    (ScanOk /\ resp.req.start = <<>> /\ db # <<>> /\ <<>> \notin KeysOf(db)
        /\ RqCap >= 1 /\ (RqBounded => WithinEnd(ExtremeKey))
        /\ ~(RqBackwards /\ ~RqInclStart)) =>
        (Len(resp.data) >= 1 /\ DataKeys[1] = ExtremeKey)

(* C14: point reads and writes.  Every successful PUT of k leaves k stored  *)
(* with the value put, every successful DELETE of k leaves k absent (a key  *)
(* that was absent included), both are answered 204 and change no other     *)
(* key; a GET of k changes nothing and returns 200 with the stored value,   *)
(* 404 when k is not stored.  By induction over the requests, GET returns   *)
(* the value of the most recent PUT that no DELETE followed.                *)
\* the values stored under k, read off the records (none, or one)
Stored(s, k) == {s[i].value : i \in {j \in 1..Len(s) : s[j].key = k}}

OtherKeysKept(k) == \A k2 \in Keys \ {k} : Stored(db', k2) = Stored(db, k2)

C14_PointReadWrite ==
    [][/\ (resp'.kind = "get" /\ resp.kind = "none") =>
            /\ db' = db
            /\ IF Stored(db, resp'.key) = {} THEN resp'.code = 404
               ELSE resp'.code = 200 /\ Stored(db, resp'.key) = {resp'.body}
       /\ (resp'.kind = "put" /\ resp.kind = "none") =>
            IF resp'.code = 204
            THEN Stored(db', resp'.key) = {resp'.body} /\ OtherKeysKept(resp'.key)
            ELSE resp'.code = 500 /\ db' = db
       /\ (resp'.kind = "delete" /\ resp.kind = "none") =>
            IF resp'.code = 204
            THEN Stored(db', resp'.key) = {} /\ OtherKeysKept(resp'.key)
            ELSE resp'.code = 500 /\ db' = db]_vars

\* a GET answered with a value while other keys are stored
C14_Witness ==
    /\ resp.kind = "get" /\ resp.code = 200 /\ resp.body = <<8>>
    /\ Len(db) >= 2

\* a GET of a key that is not stored, in a store that holds other keys
C14_WitnessAbsent ==
    /\ resp.kind = "get" /\ resp.code = 404 /\ Len(db) >= 1

\* a DELETE answered 204 that left other keys stored
C14_WitnessDelete ==
    /\ resp.kind = "delete" /\ resp.code = 204 /\ Len(db) >= 1

(* C15 as stated: a scan during which a read of the cursor failed is        *)
(* answered with that error, status 500, not with a shortened result.       *)
C15_CursorFailureIs500 ==
    (resp.kind = "iterate" /\ "iterr" \in DOMAIN resp /\ resp.iterr # "nil") =>
        resp.code = 500

(* C16: scans change nothing and do not disturb each other: no step of an   *)
(* /iterate handler changes the store or the snapshot destination, and the  *)
(* response of every scan, whatever passes of other scans ran between its   *)
(* own, is the response the same request gets when it runs alone on the     *)
(* same store.                                                              *)
C16_ScansFrameAndIsolation ==
    [][/\ db' = db
       /\ dest' = dest
       /\ \A id \in ScanIds :
             scans'[id].pc = "done" =>
                 scans'[id].resp = IterateHandler(db', scans'[id].q)]_vars

\* two scans in progress, both past their first pass, one of them finishing
\* with records
C16_Witness ==
    /\ scans[1].pc = "done" /\ scans[1].resp.code = 200
    /\ Len(scans[1].resp.data) >= 2
    /\ scans[2].pc = "loop" /\ scans[2].st.h.i >= 1
    /\ scans[2].q # scans[1].q

(* C19: the exporter commits in chunks.  While the loop runs every commit   *)
(* made so far holds exactly 1000 records, the destination holds them as    *)
(* the first records of the read view in key order, and fewer than 1000     *)
(* are pending; after a successful export of n records there were           *)
(* ceil(n/1000) commits, all of 1000 records except the last, which holds   *)
(* between 1 and 1000: no commit is empty.                                  *)
C19_ChunkedCommits ==
    LET c == snap.commits
        n == Len(snap.ss)
    IN  /\ snap.pc = "loop" =>
              /\ \A j \in 1..Len(c) : c[j] = ChunkSize
              /\ Len(snap.wb) < ChunkSize
              /\ dest.store = SubSeq(snap.ss, 1, ChunkSize * Len(c))
        /\ ExportOk =>
              /\ \A j \in 1..(Len(c) - 1) : c[j] = ChunkSize
              /\ Len(c) >= 1 => (c[Len(c)] >= 1 /\ c[Len(c)] <= ChunkSize)
              /\ Len(c) = (n + ChunkSize - 1) \div ChunkSize

C19_Witness ==
    /\ ExportOk /\ Len(snap.ss) = ChunkSize + 1
    /\ snap.commits = <<ChunkSize, 1>>

\* a source of exactly one chunk: one commit, none after the loop
C19_WitnessExactChunk ==
    /\ ExportOk /\ Len(snap.ss) = ChunkSize
    /\ snap.commits = <<ChunkSize>>

\* an empty source: no commit at all
C19_WitnessEmpty ==
    /\ ExportOk /\ Len(snap.ss) = 0 /\ snap.commits = <<>> /\ dest.exists

(* C20 as stated: in a bounded scan no key strictly before end (forward),   *)
(* or strictly after end (backward), is emitted.                            *)
C20_BeforeEndIsOutOfRange ==
    (ScanOk /\ RqBounded) =>
        \A i \in 1..Len(resp.data) :
            ~(IF RqBackwards THEN Before(resp.req.end, DataKeys[i])
              ELSE Before(DataKeys[i], resp.req.end))

(* C20 amended: in a bounded scan a key strictly after end (forward), or    *)
(* strictly before end (backward), is out of range: it is never emitted,    *)
(* nothing is emitted after it, and when the count cap stops the scan on    *)
(* such a key more stays false.                                             *)
PastEnd(k) ==
    IF RqBackwards THEN Before(k, resp.req.end) ELSE Before(resp.req.end, k)

C20_PastEndIsOutOfRange ==
    (ScanOk /\ RqBounded) =>
        /\ \A i \in 1..Len(resp.data) : ~PastEnd(DataKeys[i])
        /\ \A j \in 1..Len(Candidates) :
              PastEnd(Candidates[j]) => Len(resp.data) < j
        /\ (Len(resp.data) < Len(Candidates)
               /\ PastEnd(Candidates[Len(resp.data) + 1])) => ~resp.more

\* the cap stops the scan on a key past end, after a key was emitted
C20_Witness ==
    /\ ScanOk /\ RqBounded /\ Len(resp.data) >= 1
    /\ Len(resp.data) = RqCap
    /\ Len(resp.data) < Len(Candidates)
    /\ PastEnd(Candidates[Len(resp.data) + 1])
    /\ ~resp.more

\* a key past end stops a scan the cap has not stopped
C20_WitnessStop ==
    /\ ScanOk /\ RqBounded /\ RqBackwards /\ Len(resp.data) >= 1
    /\ Len(resp.data) < RqCap
    /\ Len(resp.data) < Len(Candidates)
    /\ PastEnd(Candidates[Len(resp.data) + 1])

-----------------------------------------------------------------------------
\* the last key of the page in resp
C21_LastKey == DataKeys[Len(resp.data)]

\* resp is a full page: a scan with a cap max >= 1 that returned max records
C21_FullPage == ScanOk /\ RqCap >= 1 /\ Len(resp.data) = RqCap

\* the answer to the request of resp re-issued on the same store with
\* start = the last key of the page and include_start = no
C21_NextPage ==
    IterateHandler(db, [resp.req EXCEPT !.start = C21_LastKey,
                                        !.include_start = "no"])

\* the page that follows resp in the uncapped scan of the same request
C21_Following ==
    LET un == Uncapped.data
    IN  SubSeq(un, RqCap + 1, Min2(2 * RqCap, Len(un)))

(* C21: manual pagination composes: when a scan with max >= 1, in either   *)
(* direction, bounded or open-ended, returns a full page with last key L,  *)
(* the same request with start = L and include_start = no on the unchanged *)
(* store returns the records that follow L in the uncapped scan.           *)
C21_PagesCompose ==
    C21_FullPage =>
        /\ C21_NextPage.code = 200
        /\ C21_NextPage.data = C21_Following

\* the same statement for every page but a backward page that ends on the
\* empty key, whose follow-up request has an empty start
C21_ExceptBackwardEmptyKey ==
    (C21_FullPage /\ ~(RqBackwards /\ C21_LastKey = <<>>)) =>
        /\ C21_NextPage.code = 200
        /\ C21_NextPage.data = C21_Following

-----------------------------------------------------------------------------
(* C22: when an export fails after the destination was opened, the handle  *)
(* of the destination is closed before the destination is destroyed: the   *)
(* step that destroys the destination is never taken while the exporter    *)
(* holds the handle open.                                                  *)
C22_ClosedBeforeDestroy ==
    [][(snap.pc = "fail" /\ snap'.pc = "returned") => snap.to = "closed"]_vars

\* what the code does instead: the handle is closed by the return that follows
\* the destroy
C22_ClosedByReturn ==
    [][(snap.pc = "fail" /\ snap'.pc = "returned") =>
          (snap.to = "open" /\ snap'.to = "closed")]_vars

(* C23: the snapshot read view an export acquires on the source is         *)
(* released by the time the export returns, on the success path and on     *)
(* every failure path: a returned export holds no unreleased read view.    *)
C23_SnapshotReleased == snap.pc = "returned" => snap.snapshots = 0

\* the only return that leaves no read view behind is the one before the
\* snapshot is taken, when the destination cannot be opened
C23_ReleasedOnlyIfNeverTaken ==
    snap.pc = "returned" => (snap.snapshots = 0 <=> snap.err = "exists")

-----------------------------------------------------------------------------
\* the positions of the operations of the batch in resp that name key k
C25_OpsOn(k) == {i \in 1..Len(resp.ops) : resp.ops[i].key = k}

\* the last operation of the batch in resp on key k
C25_LastOn(k) ==
    resp.ops[CHOOSE i \in C25_OpsOn(k) : \A j \in C25_OpsOn(k) : j <= i]

(* C25: the operations of a well-formed batch take effect in list order:   *)
(* after the commit each key named in the batch is in the state given by   *)
(* the last operation on it (stored with that put's value, or absent after *)
(* a delete) and every other key is as before; an empty batch is not       *)
(* rejected and, committed, changes nothing.                               *)
C25_BatchInListOrder ==
    (resp.kind = "batch" /\ ~HasBadOp(resp.ops)) =>
        /\ resp.code = 204 =>
              /\ Sorted(db)
              /\ \A k \in Keys \cup KeysOf(db) \cup KeysOf(resp.before) :
                    IF C25_OpsOn(k) = {}
                    THEN Stored(db, k) = Stored(resp.before, k)
                    ELSE IF C25_LastOn(k).op = "put"
                         THEN Stored(db, k) = {C25_LastOn(k).value}
                         ELSE Stored(db, k) = {}
        /\ resp.ops = <<>> => (resp.code # 400 /\ db = resp.before)

\* a put and then a delete of a key that was stored, another key stored too
C25_Witness ==
    /\ resp.kind = "batch" /\ resp.code = 204 /\ Len(resp.ops) = 2
    /\ resp.ops[1].key = resp.ops[2].key
    /\ resp.ops[1].op = "put" /\ resp.ops[2].op = "delete"
    /\ Stored(resp.before, resp.ops[1].key) # {}
    /\ Stored(db, resp.ops[1].key) = {}
    /\ Len(db) >= 1

\* a delete and then a put of the same key
C25_WitnessDeletePut ==
    /\ resp.kind = "batch" /\ resp.code = 204 /\ Len(resp.ops) = 2
    /\ resp.ops[1].key = resp.ops[2].key
    /\ resp.ops[1].op = "delete" /\ resp.ops[2].op = "put"
    /\ Stored(db, resp.ops[1].key) = {resp.ops[2].value}

\* the empty batch, committed on a store that holds records
C25_WitnessEmpty ==
    /\ resp.kind = "batch" /\ resp.code = 204 /\ resp.ops = <<>>
    /\ Len(db) >= 1 /\ db = resp.before

-----------------------------------------------------------------------------
(* The startup: main starts a goroutine that runs OpenDB and wg.Done(),    *)
(* unavailUntilReady starts one that waits for wg and then assigns the     *)
(* router to mh.Handler, and the servers started by run call mh.ServeHTTP  *)
(* for every request.  mh.Handler is an interface value of two words (type *)
(* and data); the assignment and the servers' reads of it are ordered by   *)
(* no lock, channel or atomic, and neither are the servers' reads of the   *)
(* global db set by OpenDB: the reads race with the writes, so a read      *)
(* returns, word by word, the value written or the one before it.          *)

\* main before the goroutines have run: db is nil, mh.Handler is notReady
Booting == [opener |-> "start", wg |-> 1, waiter |-> "wait", dbh |-> "nil",
            tab |-> "notReady", data |-> "notReady"]

\* what is at the database path when the process starts
BootStores ==
    {<<>>, <<Rec(<<1>>, <<7>>)>>, <<Rec(<<1>>, <<7>>), Rec(<<2>>, <<8>>)>>}

\* lib.OpenDB(path) returning: the globals db, ro and wo are set
OpenDB ==
    /\ boot.opener = "start"
    /\ boot' = [boot EXCEPT !.opener = "opened", !.dbh = "open"]
    /\ UNCHANGED <<db, resp, dest, snap, nwrites, scans>>

\* levigo.Open fails: log.Fatalf ends the process
OpenDBFatal ==
    /\ boot.opener = "start"
    /\ boot' = [boot EXCEPT !.opener = "exited"]
    /\ UNCHANGED <<db, resp, dest, snap, nwrites, scans>>

\* wg.Done() after OpenDB
WgDone ==
    /\ boot.opener = "opened"
    /\ boot' = [boot EXCEPT !.opener = "done", !.wg = @ - 1]
    /\ UNCHANGED <<db, resp, dest, snap, nwrites, scans>>

\* wg.Wait() returning in the goroutine of unavailUntilReady
WgWait ==
    /\ boot.opener # "exited"
    /\ boot.waiter = "wait"
    /\ boot.wg = 0
    /\ boot' = [boot EXCEPT !.waiter = "store"]
    /\ UNCHANGED <<db, resp, dest, snap, nwrites, scans>>

\* mh.Handler = h: one of the two words of the interface value is stored
SetHandler(word) ==
    /\ boot.opener # "exited"
    /\ boot.waiter = "store"
    /\ boot[word] = "notReady"
    /\ LET b == [boot EXCEPT ![word] = "router"]
       IN  boot' = IF b.tab = "router" /\ b.data = "router"
                   THEN [b EXCEPT !.waiter = "done"]
                   ELSE b
    /\ UNCHANGED <<db, resp, dest, snap, nwrites, scans>>

\* the values a read that no synchronisation orders after the write of w can
\* return: the initial value, and the written one once the write was issued
RacyRead(w, initial) == {initial, w}

\* mh.ServeHTTP for GET /key/<k>: the embedded Handler is read and called;
\* the router's handler reads the global db and calls db.Get
ServeHTTP(k) ==
    /\ boot.opener # "exited"
    /\ resp.kind = "none"
    /\ \E tab \in RacyRead(boot.tab, "notReady"),
          data \in RacyRead(boot.data, "notReady"),
          dbh \in RacyRead(boot.dbh, "nil") :
          resp' =
            IF tab = "notReady" /\ data = "notReady"
            THEN [kind |-> "boot", handler |-> "notReady", code |-> 503,
                  dbh |-> "unread", opened |-> boot.dbh = "open", key |-> k,
                  body |-> <<>>]
            ELSE IF tab = "router" /\ data = "router"
            THEN IF dbh = "open"
                 THEN LET b == DbGet(db, k)
                      IN  [kind |-> "boot", handler |-> "router",
                           code |-> IF b.found THEN 200 ELSE 404,
                           dbh |-> "open", opened |-> boot.dbh = "open",
                           key |-> k, body |-> b.value]
                 \* db.Get on the nil handle panics; handlePanics answers 500
                 ELSE [kind |-> "boot", handler |-> "router", code |-> 500,
                       dbh |-> "nil", opened |-> boot.dbh = "open", key |-> k,
                       body |-> <<>>]
            \* the type word of one handler with the data word of the other:
            \* the call has no defined outcome (code 0)
            ELSE [kind |-> "boot", handler |-> "torn", code |-> 0,
                  dbh |-> "unread", opened |-> boot.dbh = "open", key |-> k,
                  body |-> <<>>]
    /\ UNCHANGED <<db, dest, snap, nwrites, scans, boot>>

InitBoot ==
    /\ db \in BootStores
    /\ resp = NoResp
    /\ dest = NoDest
    /\ snap = NoSnap
    /\ nwrites = 0
    /\ scans = NoScans
    /\ boot = Booting

NextBoot ==
    \/ OpenDB
    \/ OpenDBFatal
    \/ WgDone
    \/ WgWait
    \/ \E word \in {"tab", "data"} : SetHandler(word)
    \/ \E k \in Keys : ServeHTTP(k)
    \/ Ack

SpecBoot == InitBoot /\ [][NextBoot]_vars

(* C24: with the asynchronous open at startup, under every interleaving of *)
(* requests with the opening goroutine, a request handled before OpenDB    *)
(* has completed is answered 503 by notReady and reads no database handle, *)
(* and a request is handled by the router only after OpenDB has completed, *)
(* with the database handle it reads initialised.                          *)
C24_RouterOnlyWhenOpen ==
    resp.kind = "boot" =>
        /\ resp.handler \in {"notReady", "router"}
        /\ resp.handler = "notReady" => (resp.code = 503 /\ resp.dbh = "unread")
        /\ resp.handler = "router" => (resp.opened /\ resp.dbh = "open")
        /\ ~resp.opened => resp.handler = "notReady"

\* what the WaitGroup does ensure: nothing but notReady is called before
\* OpenDB has returned and wg.Done() was called
C24_NotReadyUntilOpened ==
    resp.kind = "boot" =>
        /\ ~resp.opened =>
              (resp.handler = "notReady" /\ resp.code = 503 /\ resp.dbh = "unread")
        /\ resp.handler # "notReady" => (resp.opened /\ boot.opener = "done")

=============================================================================
